---- MODULE Spec2Model ----
(***************************************************************************)
(* A model of label_data.py: the Labeler session (image navigation, label  *)
(* selection, and the row upsert into the CSV table).                       *)
(*                                                                         *)
(* The Tk event loop runs one handler to completion per user input, so     *)
(* every handler is one atomic action.  Indices are 0-based as in the      *)
(* Python code; At(s, i) reads a Python list at index i.                   *)
(***************************************************************************)
EXTENDS Integers, Sequences, FiniteSets, TLC

VARIABLES
    image_files,          \* self.image_files: the shuffled list of image names
    labels,               \* self.labels
    doors_df,             \* self.doors_df: the rows of the DataFrame, in order
    csv_file,             \* the file at self.path_to_csv
    current_image,        \* self.current_image
    current_image_index,  \* self.current_image_index
    current_label,        \* self.current_label
    current_label_index,  \* self.current_label_index
    running,              \* the Tk mainloop is running (root.quit() not called)
    csv_writes,           \* how often the handler that ran last wrote the file
    last_event,           \* history: the handler that ran last
    pre,                  \* history: the session's fields before that handler
    window,               \* history: forward/backward moves since a start index
    tour,                 \* history: the images a run of forward moves displayed
    scenario              \* history: progress of the three-image scenario

vars == <<image_files, labels, doors_df, csv_file, current_image,
          current_image_index, current_label, current_label_index, running,
          csv_writes, last_event, pre, window, tour, scenario>>

----------------------------------------------------------------------------
(* Bounds of the model *)

\* The image directory holds between 1 and MaxImages image files.
MaxImages == 2

\* The move window counts at most MaxMoves moves away from its start.
MaxMoves == 3

----------------------------------------------------------------------------
(* Values *)

\* Python's None.
None == "None"

\* door_id=1, the default of Labeler.__init__ (the script passes no other).
door_id == 1

DOOR_LABELS == <<"open", "closed">>

\* A longer label list, for a Labeler constructed with three labels.
THREE_LABELS == <<"open", "closed", "ajar">>

\* The label lists a session is constructed with.
LabelSets == {DOOR_LABELS, THREE_LABELS}

\* s[i] of a Python list: a negative index counts from the end.
At(s, i) == IF i < 0 THEN s[Len(s) + i + 1] ELSE s[i + 1]

\* The image files a directory may hold, in a fixed order of discovery.
ImageNames == <<"a.jpg", "b.jpg", "c.jpg", "d.png">>

\* os.listdir of a directory with n images and one file that is no image.
listdir(n) == {ImageNames[i] : i \in 1..n} \cup {"notes.txt"}

\* str.endswith on the file names of the model.
endswith(file, suffix) ==
    <<file, suffix>> \in {<<"a.jpg", ".jpg">>, <<"b.jpg", ".jpg">>,
                          <<"c.jpg", ".jpg">>, <<"d.png", ".png">>,
                          <<"notes.txt", ".txt">>}

\* The rows of a table, of the DataFrame or of the file, that are keyed by image.
rows_of(table, image) == {table[i] : i \in {j \in DOMAIN table : table[j].image = image}}

\* All orders of a finite set: the outcomes of random.shuffle.
shuffle(S) ==
    {p \in [1..Cardinality(S) -> S] : \A x \in S : \E i \in DOMAIN p : p[i] = x}

\* load_image_files: the .jpg/.png files of the directory, in a random order.
load_image_files(dir) ==
    shuffle({f \in dir : endswith(f, ".jpg") \/ endswith(f, ".png")})

----------------------------------------------------------------------------
(* The CSV file: to_csv writes every cell as text, read_csv parses it back *)

\* The decimal text of an integer cell, as to_csv writes it.
IntText == <<"1", "2", "3">>

to_text(n) == IntText[n]

\* read_csv's type inference on an all-digits cell: the integer it denotes.
parse_int(txt) == CHOOSE n \in DOMAIN IntText : IntText[n] = txt

\* No file at path_to_csv.
NoFile == [exists |-> FALSE, rows |-> <<>>]

\* A to_csv that appends to the file (mode='a') instead of rewriting it.
to_csv_append(df) ==
    [exists |-> TRUE,
     rows |-> csv_file.rows \o [i \in DOMAIN df |-> [image |-> df[i].image,
                                                      label |-> df[i].label,
                                                      door_id |-> to_text(df[i].door_id)]]]

\* DataFrame.to_csv(path, index=False): the header, then one line per row in
\* the DataFrame's order; the whole file is rewritten.
to_csv(df) ==
    [exists |-> TRUE,
     rows |-> [i \in DOMAIN df |-> [image |-> df[i].image,
                                    label |-> df[i].label,
                                    door_id |-> to_text(df[i].door_id)]]]

\* pd.read_csv(path): one row per line; image and label stay text, the
\* all-digits door_id column becomes integers.
read_csv(file) ==
    [i \in DOMAIN file.rows |-> [image |-> file.rows[i].image,
                                 label |-> file.rows[i].label,
                                 door_id |-> parse_int(file.rows[i].door_id)]]

\* load_csv: the table of the file if it exists, else an empty DataFrame.
load_csv(file) == IF file.exists THEN read_csv(file) ELSE <<>>

\* A table written by an earlier session with door_id 2: a row for a.jpg and
\* a row for an image that is not in the directory.
EarlierTable ==
    [exists |-> TRUE,
     rows |-> <<[image |-> "a.jpg", label |-> "closed", door_id |-> "2"],
                [image |-> "z.jpg", label |-> "open", door_id |-> "2"]>>]

\* What path_to_csv may hold when the session starts.
InitialFiles == {NoFile, EarlierTable}

----------------------------------------------------------------------------
(* The DataFrame operations of save *)

\* self.doors_df['image'].values
image_column(df) == {df[i].image : i \in DOMAIN df}

\* The chained assignment df[df['image'] == image]['label'] = label, which
\* sets the label on a copy and leaves the DataFrame as it was.
set_label_on_copy(df, image, label) == df

\* An update that replaces the whole row, group identifier included.
set_label_whole_row(df, image, label) ==
    [i \in DOMAIN df |->
        IF df[i].image = image
        THEN [image |-> image, label |-> label, door_id |-> door_id]
        ELSE df[i]]

\* An update without the row mask: every row gets the label.
set_label_every_row(df, image, label) ==
    [i \in DOMAIN df |-> [df[i] EXCEPT !.label = label]]

\* df.loc[df['image'] == image, 'label'] = label
set_label(df, image, label) ==
    [i \in DOMAIN df |->
        IF df[i].image = image THEN [df[i] EXCEPT !.label = label] ELSE df[i]]

\* An append that builds a new DataFrame from the one row.
append_row_alone(df, image, label) ==
    <<[image |-> image, label |-> label, door_id |-> door_id]>>

\* df.append({...}, ignore_index=True)
append_row(df, image, label) ==
    Append(df, [image |-> image, label |-> label, door_id |-> door_id])

\* A save without the membership test: it appends every time.
upsert_always_append(df, image, label) ==
    Append(df, [image |-> image, label |-> label, door_id |-> door_id])

\* The DataFrame after save's update-or-append.
upsert(df, image, label) ==
    IF image \in image_column(df)
    THEN set_label(df, image, label)
    ELSE append_row(df, image, label)

----------------------------------------------------------------------------
(* Index arithmetic of the handlers *)

\* previous_* without the underflow test: the index -1 reads the last entry
\* of a Python list, and stays out of range.
previous_index_unchecked(index, n) == index - 1

\* previous_* that stops at the first entry instead of wrapping.
previous_index_clamped(index, n) == IF index - 1 < 0 THEN 0 ELSE index - 1

\* index -= 1; if index < 0: index = n - 1
previous_index(index, n) == IF index - 1 < 0 THEN n - 1 ELSE index - 1

\* next_* that stops at the last entry instead of wrapping.
next_index_stops(index, n) == IF index + 1 >= n THEN index ELSE index + 1

\* index += 1; if index >= n: index = 0
next_index(index, n) == IF index + 1 >= n THEN 0 ELSE index + 1

----------------------------------------------------------------------------
(* The session after Labeler.__init__ *)

\* __init__ up to root.mainloop(): the shuffled image list, the loaded table,
\* the first image displayed by load_image, no label selected.
InitSession(sizes, labelsets, files) ==
    /\ \E n \in sizes : image_files \in load_image_files(listdir(n))
    /\ labels \in labelsets
    /\ csv_file \in files
    /\ doors_df = load_csv(csv_file)
    /\ current_image_index = 0
    /\ current_image = At(image_files, 0)
    /\ current_label = None
    /\ current_label_index = 0
    /\ running = TRUE
    /\ csv_writes = 0

----------------------------------------------------------------------------
(* Handlers *)

\* A save that writes the file before it tests the label: without a label
\* it still rewrites (or creates) the file.
save_image_writes_first(image) ==
    IF current_label = None
    THEN /\ UNCHANGED doors_df
         /\ csv_file' = to_csv(doors_df)
         /\ csv_writes' = 1
    ELSE /\ doors_df' = upsert(doors_df, image, current_label)
         /\ csv_file' = to_csv(doors_df')
         /\ csv_writes' = 1

\* A save without the test for a selected label: None is written as a label.
save_image_unguarded(image) ==
    /\ doors_df' = upsert(doors_df, image, current_label)
    /\ csv_file' = to_csv(doors_df')
    /\ csv_writes' = 1

\* save with the row keyed by `image`: nothing without a selected label, else
\* the upsert and the rewrite of the file.
save_image(image) ==
    IF current_label = None
    THEN UNCHANGED <<doors_df, csv_file>> /\ csv_writes' = 0
    ELSE /\ doors_df' = upsert(doors_df, image, current_label)
         /\ csv_file' = to_csv(doors_df')
         /\ csv_writes' = 1

\* Labeler.save
save == save_image(current_image)

\* Labeler.load_image: the image at the (new) index becomes the current one.
load_image == current_image' = At(image_files, current_image_index')

\* Labeler.previous_image
previous_image ==
    /\ running
    /\ save
    /\ current_image_index' = previous_index(current_image_index, Len(image_files))
    /\ load_image
    /\ UNCHANGED <<image_files, labels, current_label, current_label_index, running>>

\* A next_image that loads the next image before it saves: the row is keyed
\* by the image arrived at.
next_image_load_first(no_save) ==
    /\ running
    /\ current_image_index' = next_index(current_image_index, Len(image_files))
    /\ load_image
    /\ IF no_save THEN UNCHANGED <<doors_df, csv_file>> /\ csv_writes' = 0 ELSE save_image(current_image')
    /\ UNCHANGED <<image_files, labels, current_label, current_label_index, running>>

\* A next_image that clears the label selection for the image it loads.
next_image_clears_label(no_save) ==
    /\ running
    /\ IF no_save THEN UNCHANGED <<doors_df, csv_file>> /\ csv_writes' = 0 ELSE save
    /\ current_image_index' = next_index(current_image_index, Len(image_files))
    /\ load_image
    /\ current_label' = None
    /\ UNCHANGED <<image_files, labels, current_label_index, running>>

\* A next_image that shuffles the image list again when it wraps.
next_image_reshuffles(no_save) ==
    /\ running
    /\ IF no_save THEN UNCHANGED <<doors_df, csv_file>> /\ csv_writes' = 0 ELSE save
    /\ current_image_index' = next_index(current_image_index, Len(image_files))
    /\ IF current_image_index' = 0
       THEN image_files' \in shuffle({image_files[i] : i \in DOMAIN image_files})
       ELSE UNCHANGED image_files
    /\ current_image' = At(image_files', current_image_index')
    /\ UNCHANGED <<labels, current_label, current_label_index, running>>

\* Labeler.next_image
next_image(no_save) ==
    /\ running
    /\ IF no_save THEN UNCHANGED <<doors_df, csv_file>> /\ csv_writes' = 0 ELSE save
    /\ current_image_index' = next_index(current_image_index, Len(image_files))
    /\ load_image
    /\ UNCHANGED <<image_files, labels, current_label, current_label_index, running>>

\* A skip_image that forgets no_save=True.
skip_image_saving == next_image(FALSE)

\* Labeler.skip_image
skip_image == next_image(TRUE)

\* A previous_label that reads the label before it moves the index.
previous_label_stale ==
    /\ running
    /\ current_label_index' = previous_index(current_label_index, Len(labels))
    /\ current_label' = At(labels, current_label_index)
    /\ csv_writes' = 0
    /\ UNCHANGED <<image_files, labels, doors_df, csv_file, current_image,
                   current_image_index, running>>

\* Labeler.previous_label
previous_label ==
    /\ running
    /\ current_label_index' = previous_index(current_label_index, Len(labels))
    /\ current_label' = At(labels, current_label_index')
    /\ csv_writes' = 0
    /\ UNCHANGED <<image_files, labels, doors_df, csv_file, current_image,
                   current_image_index, running>>

\* Labeler.next_label
next_label ==
    /\ running
    /\ current_label_index' = next_index(current_label_index, Len(labels))
    /\ current_label' = At(labels, current_label_index')
    /\ csv_writes' = 0
    /\ UNCHANGED <<image_files, labels, doors_df, csv_file, current_image,
                   current_image_index, running>>

\* A select_label that saves the picked label at once.
select_label_saving(picked) ==
    /\ running
    /\ current_label_index' = picked
    /\ current_label' = At(labels, current_label_index')
    /\ doors_df' = upsert(doors_df, current_image, current_label')
    /\ csv_file' = to_csv(doors_df')
    /\ csv_writes' = 1
    /\ UNCHANGED <<image_files, labels, current_image, current_image_index, running>>

\* A select_label that moves the index and leaves the selected label.
select_label_index_only(picked) ==
    /\ running
    /\ current_label_index' = picked
    /\ csv_writes' = 0
    /\ UNCHANGED <<image_files, labels, doors_df, csv_file, current_image,
                   current_image_index, current_label, running>>

\* Labeler.select_label, with curselection()[0] = picked.
select_label(picked) ==
    /\ running
    /\ current_label_index' = picked
    /\ current_label' = At(labels, current_label_index')
    /\ csv_writes' = 0
    /\ UNCHANGED <<image_files, labels, doors_df, csv_file, current_image,
                   current_image_index, running>>

\* A quit that saves the current selection before it ends the mainloop.
quit_saving ==
    /\ running
    /\ running' = FALSE
    /\ save
    /\ UNCHANGED <<image_files, labels, current_image, current_image_index,
                   current_label, current_label_index>>

\* Labeler.quit: root.quit() ends the mainloop; no handler runs afterwards.
quit ==
    /\ running
    /\ running' = FALSE
    /\ csv_writes' = 0
    /\ UNCHANGED <<image_files, labels, doors_df, csv_file, current_image,
                   current_image_index, current_label, current_label_index>>

----------------------------------------------------------------------------
(* History variables: they record what happened and steer nothing *)

\* The handlers that display another image.
Moves == {"next_image", "previous_image", "skip_image"}

\* The handlers that select a label.
LabelEvents == {"previous_label", "next_label", "select_label"}

\* The session's fields as a handler finds them, whether the handler before
\* it was a move (no label was chosen on the image displayed), and the file
\* the session started with.
Snapshot ==
    [moved_last |-> last_event \in Moves,
     initial_file |-> IF last_event = "init" THEN csv_file ELSE pre.initial_file,
     image_files |-> image_files,
     current_image |-> current_image,
     current_image_index |-> current_image_index,
     current_label |-> current_label,
     current_label_index |-> current_label_index,
     doors_df |-> doors_df,
     csv_file |-> csv_file]

\* Handler A ran as event e.
Observed(A, e) == A /\ last_event' = e /\ pre' = Snapshot

\* The move window: its start index, the forward and the backward moves made
\* since, and whether one of them wrapped past an end of the image list.
NoWindow == [start |-> 0, fwd |-> 0, bwd |-> 0, crossed |-> FALSE]

\* A move in direction dir (1 forward, -1 backward) from the current index
\* wraps past an end of the image list.
Wraps(dir) ==
    \/ dir = 1 /\ current_image_index = Len(image_files) - 1
    \/ dir = -1 /\ current_image_index = 0

\* Handler A moved the image index in direction dir.  A window that already
\* holds MaxMoves moves of that direction starts again at the current index.
Moved(A, dir) ==
    /\ A
    /\ window' =
         IF (IF dir = 1 THEN window.fwd ELSE window.bwd) >= MaxMoves
         THEN [start |-> current_image_index,
               fwd |-> IF dir = 1 THEN 1 ELSE 0,
               bwd |-> IF dir = -1 THEN 1 ELSE 0,
               crossed |-> Wraps(dir)]
         ELSE [start |-> window.start,
               fwd |-> window.fwd + (IF dir = 1 THEN 1 ELSE 0),
               bwd |-> window.bwd + (IF dir = -1 THEN 1 ELSE 0),
               crossed |-> window.crossed \/ Wraps(dir)]

\* Handler A moved forward: the image it displays joins the run, and a run
\* that already holds as many moves as there are images starts again from
\* the image displayed before this move.
Forward(A) ==
    /\ A
    /\ tour' = IF Len(tour) > Len(image_files)
               THEN <<current_image, current_image'>>
               ELSE Append(tour, current_image')

\* Handler A moved backward: the run of forward moves starts again from the
\* image it displays.
Backward(A) == A /\ tour' = <<current_image'>>

\* The scenario of the three images: "start" (empty table, nothing persisted),
\* "a_open" (next persisted open for a.jpg), "b_closed" (then next persisted
\* closed for b.jpg), "done" (then quit); "off" once the session leaves it.
\* A move that persists nothing (skip, or no label selected) keeps the stage.
Staged(A, e) ==
    /\ A
    /\ scenario' =
         IF e = "quit"
         THEN (IF scenario = "b_closed" THEN "done" ELSE "off")
         ELSE IF e = "skip_image" \/ current_label = None
         THEN scenario
         ELSE IF e = "next_image" /\ scenario = "start"
                 /\ current_image = "a.jpg" /\ current_label = "open"
         THEN "a_open"
         ELSE IF e = "next_image" /\ scenario = "a_open"
                 /\ current_image = "b.jpg" /\ current_label = "closed"
         THEN "b_closed"
         ELSE "off"

----------------------------------------------------------------------------
(* Specifications *)

\* Any session: 1..MaxImages images, either label list, either initial file.
Init ==
    /\ InitSession(1..MaxImages, LabelSets, InitialFiles)
    /\ last_event = "init"
    /\ pre = Snapshot
    /\ window = NoWindow
    /\ tour = <<current_image>>
    /\ scenario = "off"

\* The handlers the key bindings and the buttons run.
Next ==
    \/ Observed(next_image(FALSE), "next_image") /\ UNCHANGED <<window, tour, scenario>>
    \/ Observed(previous_image, "previous_image") /\ UNCHANGED <<window, tour, scenario>>
    \/ Observed(skip_image, "skip_image") /\ UNCHANGED <<window, tour, scenario>>
    \/ Observed(previous_label, "previous_label") /\ UNCHANGED <<window, tour, scenario>>
    \/ Observed(next_label, "next_label") /\ UNCHANGED <<window, tour, scenario>>
    \/ \E picked \in 0..(Len(labels) - 1) :
          Observed(select_label(picked), "select_label") /\ UNCHANGED <<window, tour, scenario>>
    \/ Observed(quit, "quit") /\ UNCHANGED <<window, tour, scenario>>

Spec == Init /\ [][Next]_vars

\* The same sessions with the move window recorded.
InitWindow ==
    /\ InitSession(1..MaxImages, {DOOR_LABELS}, InitialFiles)
    /\ last_event = "init"
    /\ pre = Snapshot
    /\ window = NoWindow
    /\ tour = <<current_image>>
    /\ scenario = "off"

NextWindow ==
    \/ Moved(next_image(FALSE), 1) /\ UNCHANGED <<last_event, pre, tour, scenario>>
    \/ Moved(previous_image, -1) /\ UNCHANGED <<last_event, pre, tour, scenario>>
    \/ Moved(skip_image, 1) /\ UNCHANGED <<last_event, pre, tour, scenario>>
    \/ previous_label /\ UNCHANGED <<last_event, pre, window, tour, scenario>>
    \/ next_label /\ UNCHANGED <<last_event, pre, window, tour, scenario>>
    \/ \E picked \in 0..(Len(labels) - 1) :
          select_label(picked) /\ UNCHANGED <<last_event, pre, window, tour, scenario>>
    \/ quit /\ UNCHANGED <<last_event, pre, window, tour, scenario>>

SpecWindow == InitWindow /\ [][NextWindow]_vars

\* The same sessions with the runs of forward moves recorded; pre stays the
\* snapshot of the session at load.
InitTour ==
    /\ InitSession(1..MaxImages, LabelSets, InitialFiles)
    /\ last_event = "init"
    /\ pre = Snapshot
    /\ window = NoWindow
    /\ tour = <<current_image>>
    /\ scenario = "off"

NextTour ==
    \/ Forward(next_image(FALSE)) /\ UNCHANGED <<last_event, pre, window, scenario>>
    \/ Backward(previous_image) /\ UNCHANGED <<last_event, pre, window, scenario>>
    \/ Forward(skip_image) /\ UNCHANGED <<last_event, pre, window, scenario>>
    \/ previous_label /\ UNCHANGED <<last_event, pre, window, scenario, tour>>
    \/ next_label /\ UNCHANGED <<last_event, pre, window, scenario, tour>>
    \/ \E picked \in 0..(Len(labels) - 1) :
          select_label(picked) /\ UNCHANGED <<last_event, pre, window, scenario, tour>>
    \/ quit /\ UNCHANGED <<last_event, pre, window, scenario, tour>>

SpecTour == InitTour /\ [][NextTour]_vars

\* The scenario's session: images a.jpg, b.jpg, c.jpg, labels open and
\* closed, no table yet.
InitScenario ==
    /\ InitSession({Cardinality({"a.jpg", "b.jpg", "c.jpg"})}, {DOOR_LABELS}, {NoFile})
    /\ last_event = "init"
    /\ pre = Snapshot
    /\ window = NoWindow
    /\ tour = <<current_image>>
    /\ scenario = "start"

NextScenario ==
    \/ Staged(next_image(FALSE), "next_image") /\ UNCHANGED <<last_event, pre, window, tour>>
    \/ Staged(previous_image, "previous_image") /\ UNCHANGED <<last_event, pre, window, tour>>
    \/ Staged(skip_image, "skip_image") /\ UNCHANGED <<last_event, pre, window, tour>>
    \/ previous_label /\ UNCHANGED <<last_event, pre, window, tour, scenario>>
    \/ next_label /\ UNCHANGED <<last_event, pre, window, tour, scenario>>
    \/ \E picked \in 0..(Len(labels) - 1) :
          select_label(picked) /\ UNCHANGED <<last_event, pre, window, tour, scenario>>
    \/ Staged(quit, "quit") /\ UNCHANGED <<last_event, pre, window, tour>>

SpecScenario == InitScenario /\ [][NextScenario]_vars

----------------------------------------------------------------------------
(* Properties *)

\* The last event was next or previous, taken with a label selected: the
\* persisting transitions.
Persisted ==
    /\ last_event \in {"next_image", "previous_image"}
    /\ pre.current_label # None

\* The index a move of the last event's direction reaches from the index
\* before it, counted modulo the number of images.
MovedIndex ==
    (pre.current_image_index
       + (IF last_event = "previous_image" THEN Len(image_files) - 1 ELSE 1))
    % Len(image_files)

\* No two rows of the table are keyed by the same image.
UniqueImages(table) ==
    \A i, j \in DOMAIN table : table[i].image = table[j].image => i = j

C2_IndicesValid ==
    /\ current_image_index \in 0..(Len(image_files) - 1)
    /\ current_label_index \in 0..(Len(labels) - 1)

\* C2 witness: previous wrapped the image index from 0 to the last image
\* while the label index stood at the last label.
C2_Witness ==
    /\ last_event = "previous_image"
    /\ pre.current_image_index = 0
    /\ Len(image_files) >= 2
    /\ current_image_index = Len(image_files) - 1
    /\ current_label_index = Len(labels) - 1

\* The part of C3 that holds whatever the number of images: the row is
\* written, in the DataFrame and in the file, for the image displayed before
\* the move with the selected label, and the index then moves by one, forward
\* for next and backward for previous, with wrap-around.
PersistsImageLeft ==
    /\ pre.current_image = At(image_files, pre.current_image_index)
    /\ \E row \in rows_of(doors_df, pre.current_image) :
          row.label = pre.current_label
    /\ \E row \in rows_of(csv_file.rows, pre.current_image) :
          row.label = pre.current_label
    /\ current_image_index = MovedIndex
    /\ current_image = At(image_files, current_image_index)

\* The rows of the image arrived at are what they were before the transition.
ArrivedRowsUntouched ==
    /\ rows_of(doors_df, current_image) = rows_of(pre.doors_df, current_image)
    /\ csv_file.exists =>
          rows_of(load_csv(csv_file), current_image)
             = rows_of(pre.doors_df, current_image)

\* C3 as stated: a next or previous taken with a label selected persists a
\* row for the image displayed before the move and then moves the index; the
\* row is never written for the image arrived at.
C3_Original ==
    Persisted => PersistsImageLeft /\ ArrivedRowsUntouched

\* C3 as amended: the same, and the image arrived at keeps its rows whenever
\* it is another image than the one left (the sequence holds more than one
\* image).
C3_PersistThenMove ==
    Persisted =>
       /\ PersistsImageLeft
       /\ current_image # pre.current_image => ArrivedRowsUntouched

\* C3 witness: a persisting next with more than one image, arriving at an
\* image that has no row while the image left has one.
C3_Witness ==
    /\ Persisted
    /\ last_event = "next_image"
    /\ Len(image_files) >= 2
    /\ current_image # pre.current_image
    /\ rows_of(doors_df, current_image) = {}
    /\ rows_of(doors_df, pre.current_image) # {}

\* C4: skip leaves the DataFrame and the file unchanged, with or without a
\* label selected, and advances the image index by one with wrap-around.
C4_SkipNeverMutates ==
    last_event = "skip_image" =>
       /\ doors_df = pre.doors_df
       /\ csv_file = pre.csv_file
       /\ current_image_index = MovedIndex

\* C4 witness: a skip taken with a label selected, on an image without a row,
\* that wrapped from the last image to the first.
C4_Witness ==
    /\ last_event = "skip_image"
    /\ pre.current_label # None
    /\ pre.current_image \notin image_column(doors_df)
    /\ Len(image_files) >= 2
    /\ pre.current_image_index = Len(image_files) - 1
    /\ current_image_index = 0

\* C5: persisting a label for an image that already has a row overwrites
\* it: afterwards the image has exactly one row, with the label persisted
\* last, and the store has no more rows than before.
C5_OverwriteNotDuplicate ==
    (Persisted /\ pre.current_image \in image_column(pre.doors_df)) =>
       /\ Cardinality({i \in DOMAIN doors_df :
                          doors_df[i].image = pre.current_image}) = 1
       /\ \A row \in rows_of(doors_df, pre.current_image) :
             row.label = pre.current_label
       /\ Len(doors_df) = Len(pre.doors_df)
       /\ Cardinality({i \in DOMAIN csv_file.rows :
                          csv_file.rows[i].image = pre.current_image}) = 1
       /\ \A row \in rows_of(csv_file.rows, pre.current_image) :
             row.label = pre.current_label

\* C5 witness: the row overwritten carried another label.
C5_Witness ==
    /\ Persisted
    /\ \E row \in rows_of(pre.doors_df, pre.current_image) :
          row.label # pre.current_label

\* C6: after open for a.jpg and next, closed for b.jpg and next, then quit,
\* from an empty store, the output table holds exactly the two rows
\* (a.jpg, open, door_id) and (b.jpg, closed, door_id), none for c.jpg.
C6_ScenarioTable ==
    scenario = "done" =>
       /\ csv_file.exists
       /\ Len(csv_file.rows) = 2
       /\ {csv_file.rows[i] : i \in DOMAIN csv_file.rows}
            = {[image |-> "a.jpg", label |-> "open", door_id |-> to_text(door_id)],
               [image |-> "b.jpg", label |-> "closed", door_id |-> to_text(door_id)]}
       /\ rows_of(csv_file.rows, "c.jpg") = {}

\* C6 witness: the scenario ran to its end.
C6_Witness == scenario = "done" /\ ~running

C8_LabelCycleWraps ==
    /\ last_event = "previous_label" =>
          /\ current_label_index =
                IF pre.current_label_index = 0
                THEN Len(labels) - 1
                ELSE pre.current_label_index - 1
          /\ current_label = labels[current_label_index + 1]
    /\ last_event = "next_label" =>
          /\ current_label_index =
                IF pre.current_label_index = Len(labels) - 1
                THEN 0
                ELSE pre.current_label_index + 1
          /\ current_label = labels[current_label_index + 1]

\* C8 witness: a backward cycle from index 0 of three labels.
C8_Witness ==
    /\ last_event = "previous_label"
    /\ pre.current_label_index = 0
    /\ Len(labels) = 3
    /\ current_label = "ajar"

\* C9: the label events leave the image index, the displayed image, the
\* DataFrame and the file unchanged.
C9_LabelEventsFrame ==
    last_event \in {"previous_label", "next_label", "select_label"} =>
       /\ current_image_index = pre.current_image_index
       /\ current_image = pre.current_image
       /\ doors_df = pre.doors_df
       /\ csv_file = pre.csv_file

\* C9 witness: a pick that changed the selected label, on an image other
\* than the first, with rows in the store.
C9_Witness ==
    /\ last_event = "select_label"
    /\ current_label # pre.current_label
    /\ pre.current_label # None
    /\ current_image_index # 0
    /\ Len(doors_df) >= 1

\* C10: after a row is upserted and the store flushed, loading the file
\* yields the store that was flushed, and its row for the image carries the
\* upserted label.
C10_RoundTrip ==
    Persisted =>
       /\ load_csv(csv_file) = doors_df
       /\ rows_of(load_csv(csv_file), pre.current_image) # {}
       /\ \A row \in rows_of(load_csv(csv_file), pre.current_image) :
             row.label = pre.current_label

\* C10 witness: a flush of a store that holds rows of both group identifiers.
C10_Witness ==
    /\ Persisted
    /\ csv_file.exists
    /\ \E i, j \in DOMAIN doors_df :
          doors_df[i].door_id = door_id /\ doors_df[j].door_id # door_id

\* C11 as stated: after a persisting transition the row of the persisted
\* image is (image, selected label, session group identifier), whether or not
\* a row existed before.
C11_Original ==
    Persisted =>
       rows_of(doors_df, pre.current_image)
          = {[image |-> pre.current_image, label |-> pre.current_label,
              door_id |-> door_id]}

\* C11 as amended: a new row is (image, selected label, session group
\* identifier); an existing row gets the selected label and keeps the group
\* identifier it had.
C11_UpsertRow ==
    Persisted =>
       rows_of(doors_df, pre.current_image)
          = IF pre.current_image \in image_column(pre.doors_df)
            THEN {[row EXCEPT !.label = pre.current_label] :
                     row \in rows_of(pre.doors_df, pre.current_image)}
            ELSE {[image |-> pre.current_image, label |-> pre.current_label,
                   door_id |-> door_id]}

\* C11 witness: the persisted image had a row of another group identifier and
\* another label, loaded from the table.
C11_Witness ==
    /\ Persisted
    /\ \E row \in rows_of(pre.doors_df, pre.current_image) :
          row.door_id # door_id /\ row.label # pre.current_label
    /\ \E row \in rows_of(doors_df, pre.current_image) :
          row.door_id # door_id /\ row.label = pre.current_label

\* C12: a next or previous taken with a label selected rewrites the file
\* exactly once, and the file then holds the in-memory store; taken without a
\* label it changes neither the store nor the file and creates no file; no
\* other event writes the file.
C12_FlushAccounting ==
    /\ Persisted =>
          /\ csv_writes = 1
          /\ csv_file = to_csv(doors_df)
    /\ (last_event \in {"next_image", "previous_image"} /\ pre.current_label = None) =>
          /\ csv_writes = 0
          /\ doors_df = pre.doors_df
          /\ csv_file = pre.csv_file
    /\ last_event \notin {"next_image", "previous_image"} =>
          /\ csv_writes = 0
          /\ csv_file = pre.csv_file

\* C12 witness: a persisting previous rewrote a file that held other content,
\* in a session that began without a file.
C12_Witness ==
    /\ Persisted
    /\ last_event = "previous_image"
    /\ csv_writes = 1
    /\ pre.csv_file.exists
    /\ csv_file # pre.csv_file
    /\ rows_of(doors_df, "z.jpg") = {}

\* C13: quit writes nothing: the DataFrame and the file are what they were,
\* the file holds what the last persisting next or previous wrote, and a
\* label selected for the displayed image without a next or previous after it
\* is not persisted.
C13_QuitNoFlush ==
    last_event = "quit" =>
       /\ ~running
       /\ csv_writes = 0
       /\ doors_df = pre.doors_df
       /\ csv_file = pre.csv_file
       /\ load_csv(csv_file) = doors_df
       /\ current_label = pre.current_label
       /\ current_image = pre.current_image

\* C13 witness: quit with a label selected on an image that has no row, after
\* an earlier transition wrote the file.
C13_Witness ==
    /\ last_event = "quit"
    /\ current_label # None
    /\ current_image \notin image_column(doors_df)
    /\ current_image \notin image_column(csv_file.rows)
    /\ csv_file.exists
    /\ Len(csv_file.rows) = 1

\* The image files of a directory that holds n images.
Discovered(n) == {f \in listdir(n) : endswith(f, ".jpg") \/ endswith(f, ".png")}

\* C14: the image sequence is a permutation of all discovered image
\* identifiers, fixed at load, with both indices starting at 0; no event
\* changes it, and K forward moves in a row over K images display every image
\* exactly once and end at the image they started from.
C14_FixedPermutation ==
    /\ pre.current_image_index = 0
    /\ pre.current_label_index = 0
    /\ {image_files[i] : i \in DOMAIN image_files} = Discovered(Len(image_files))
    /\ \A i, j \in DOMAIN image_files : image_files[i] = image_files[j] => i = j
    /\ image_files = pre.image_files
    /\ \A i, j \in 2..Len(tour) : tour[i] = tour[j] => i = j
    /\ Len(tour) = Len(image_files) + 1 =>
          /\ tour[Len(tour)] = tour[1]
          /\ {tour[i] : i \in 2..Len(tour)} = Discovered(Len(image_files))

\* C14 witness: a full run over more than one image that started at another
\* image than the first of the sequence, so it wrapped past the end.
C14_Witness ==
    /\ Len(image_files) >= 2
    /\ Len(tour) = Len(image_files) + 1
    /\ tour[1] # image_files[1]
    /\ current_image = tour[1]

\* C15: there is no terminal state: while the session runs, next, previous
\* and skip are enabled whatever the index, and once the user triggers only
\* next, again and again, every image of the sequence is displayed again and
\* again.
C15_NoTerminalState ==
    /\ [](running => /\ ENABLED next_image(FALSE)
                     /\ ENABLED previous_image
                     /\ ENABLED skip_image)
    /\ (<>[][next_image(FALSE)]_vars /\ []<><<next_image(FALSE)>>_vars) =>
          \A k \in DOMAIN ImageNames :
             []<>(k <= Len(image_files) => current_image = ImageNames[k])

\* C15 witness: a forward move taken at the last image of several arrived at
\* the first one, and the session runs on with next enabled.
C15_Witness ==
    /\ running
    /\ Len(image_files) >= 2
    /\ Len(tour) >= 2
    /\ tour[Len(tour) - 1] = image_files[Len(image_files)]
    /\ current_image = image_files[1]
    /\ ENABLED next_image(FALSE)

\* C16: no label is selected at first; a label event selects one, and no
\* event clears or resets the selection, a move to another image included;
\* so every next or previous taken after a label event writes a row for the
\* image left, with the label carried over when no new choice was made.
C16_StickySelection ==
    /\ last_event = "init" => current_label = None
    /\ last_event \in LabelEvents => current_label # None
    /\ pre.current_label # None => current_label # None
    /\ last_event \notin LabelEvents => current_label = pre.current_label
    /\ Persisted =>
          /\ csv_writes = 1
          /\ \E row \in rows_of(doors_df, pre.current_image) :
                row.label = pre.current_label /\ row.label = current_label

\* C16 witness: a persisting move made right after another move, with no
\* label event on the image left: its new row carries the label chosen on an
\* earlier image.
C16_Witness ==
    /\ Persisted
    /\ pre.moved_last
    /\ pre.current_image \notin image_column(pre.doors_df)
    /\ \E row \in rows_of(doors_df, pre.current_image) :
          row.label = current_label

\* C17: the selected label is absent, which it is only before the first
\* label event, or it is the LabelSet entry at the label index; a label
\* event sets the index and the label together.
C17_LabelMatchesIndex ==
    /\ current_label = None \/ current_label = labels[current_label_index + 1]
    /\ current_label = None =>
          last_event \notin LabelEvents /\ pre.current_label = None
    /\ last_event \in LabelEvents =>
          current_label = labels[current_label_index + 1]

\* C17 witness: a pick moved the index of three labels from one selected
\* entry to the last one.
C17_Witness ==
    /\ last_event = "select_label"
    /\ pre.current_label = "open"
    /\ pre.current_label_index = 0
    /\ current_label_index = 2
    /\ current_label = "ajar"

\* C18: no event removes a row or an image identifier from the store, and a
\* persisting transition changes no row but the one of the image left: every
\* other row, a loaded row of an image outside the directory included, keeps
\* its place, label and group identifier.
C18_StoreOnlyGrows ==
    /\ Len(doors_df) >= Len(pre.doors_df)
    /\ image_column(pre.doors_df) \subseteq image_column(doors_df)
    /\ image_column(pre.csv_file.rows) \subseteq image_column(csv_file.rows)
    /\ \A i \in DOMAIN pre.doors_df :
          (Persisted /\ pre.doors_df[i].image = pre.current_image)
             \/ doors_df[i] = pre.doors_df[i]
    /\ \A i \in DOMAIN doors_df :
          i \in DOMAIN pre.doors_df \/ doors_df[i].image = pre.current_image

\* C18 witness: a transition appended a row to a store that holds the loaded
\* row of z.jpg, an image outside the directory, and changed another label
\* since the load.
C18_Witness ==
    /\ Persisted
    /\ Len(doors_df) = Len(pre.doors_df) + 1
    /\ [image |-> "z.jpg", label |-> "open", door_id |-> 2]
          \in rows_of(doors_df, "z.jpg")
    /\ \E row \in rows_of(doors_df, "a.jpg") : row.label # "closed"

\* The rows of the DataFrame whose image the initial table did not hold: the
\* rows inserted during the session.
InsertedRows ==
    {doors_df[i] : i \in {j \in DOMAIN doors_df :
        doors_df[j].image \notin image_column(pre.initial_file.rows)}}

\* C19: every row inserted during the session has an image of the session's
\* image sequence, a label of the LabelSet and the session's group
\* identifier; from an empty store that is every row of the store.
C19_InsertedRowsValid ==
    /\ \A row \in InsertedRows :
          /\ row.image \in {image_files[i] : i \in DOMAIN image_files}
          /\ row.label \in {labels[i] : i \in DOMAIN labels}
          /\ row.door_id = door_id
    /\ ~pre.initial_file.exists =>
          InsertedRows = {doors_df[i] : i \in DOMAIN doors_df}

\* C19 witness: a session that began without a file has a row for each of
\* its images, one of them labelled with the third label.
C19_Witness ==
    /\ ~pre.initial_file.exists
    /\ Len(image_files) >= 2
    /\ Len(doors_df) = Len(image_files)
    /\ \E i \in DOMAIN doors_df : doors_df[i].label = "ajar"

====
